---- MODULE Spec2Model ----
(***************************************************************************)
(* A model of logjammin.py: the line grammar (date headings, time entries),*)
(* the parse mode state machine of LogJammin.parse_line, the loading loop  *)
(* of LogJammin.load_logs and the run of LogJammin.__init__ (validation,   *)
(* sorting, confirmation prompt, sequential upload).                       *)
(*                                                                         *)
(* Text is modelled as sequences of one-character strings, so that the     *)
(* regular expressions of the source are matched character by character.   *)
(***************************************************************************)
EXTENDS Integers, Sequences, FiniteSets, TLC

\* ------------------------------------------------------------------------
\* Characters
\* ------------------------------------------------------------------------

DigitChars == <<"0", "1", "2", "3", "4", "5", "6", "7", "8", "9">>

UpperChars ==
  <<"A", "B", "C", "D", "E", "F", "G", "H", "I", "J", "K", "L", "M",
    "N", "O", "P", "Q", "R", "S", "T", "U", "V", "W", "X", "Y", "Z">>

LowerChars ==
  <<"a", "b", "c", "d", "e", "f", "g", "h", "i", "j", "k", "l", "m",
    "n", "o", "p", "q", "r", "s", "t", "u", "v", "w", "x", "y", "z">>

\* Two characters outside ASCII, each written as one atom: ARABIC-INDIC DIGIT
\* ONE is a decimal digit to \d, int() and float(); KELVIN SIGN is matched by
\* [A-Z] under re.IGNORECASE and is left as it is by str.upper().
ArabicIndicOne == "U+0661"
KelvinSign == "U+212A"

\* The characters of the model in code point order (str comparison of the
\* sort key compares code points).
CharOrder ==
  <<"\t", " ", ",", "-", ".">> \o DigitChars \o UpperChars \o LowerChars
    \o <<ArabicIndicOne, KelvinSign>>

Range(s) == {s[i] : i \in 1..Len(s)}

Digit == Range(DigitChars)
Upper == Range(UpperChars)
Lower == Range(LowerChars)

IndexIn(s, c) == CHOOSE i \in 1..Len(s) : s[i] = c

Ord(c) == IndexIn(CharOrder, c)

\* \s of the regular expressions and of str.strip(), over the model's characters
IsSpace(c) == c \in {" ", "\t"}

\* \d of the regular expressions (a str pattern: any decimal digit)
IsDigit(c) == c \in Digit \/ c = ArabicIndicOne

\* [A-Z] under re.IGNORECASE
IsLetter(c) == c \in Upper \/ c \in Lower \/ c = KelvinSign

\* [A-Z0-9] under re.IGNORECASE
IsAlnum(c) == IsLetter(c) \/ c \in Digit

\* str.upper() on one character
UpperChar(c) == IF c \in Lower THEN UpperChars[IndexIn(LowerChars, c)] ELSE c

upper(s) == [i \in 1..Len(s) |-> UpperChar(s[i])]

DigitVal(c) == IF c = ArabicIndicOne THEN 1 ELSE IndexIn(DigitChars, c) - 1

\* int() of a string of decimal digits
RECURSIVE int(_)
int(s) == IF s = <<>> THEN 0 ELSE 10 * int(SubSeq(s, 1, Len(s) - 1)) + DigitVal(s[Len(s)])

AllDigits(s) == \A i \in 1..Len(s) : IsDigit(s[i])

\* ------------------------------------------------------------------------
\* String helpers
\* ------------------------------------------------------------------------

RECURSIVE lstrip(_)
lstrip(s) == IF s # <<>> /\ IsSpace(Head(s)) THEN lstrip(Tail(s)) ELSE s

RECURSIVE rstrip(_)
rstrip(s) ==
  IF s # <<>> /\ IsSpace(s[Len(s)]) THEN rstrip(SubSeq(s, 1, Len(s) - 1)) ELSE s

\* str.strip()
strip(s) == rstrip(lstrip(s))

\* re.sub(r'\s+', ' ', s)
RECURSIVE collapse_spaces(_)
collapse_spaces(s) ==
  IF s = <<>> THEN <<>>
  ELSE IF IsSpace(Head(s)) THEN <<" ">> \o collapse_spaces(lstrip(s))
  ELSE <<Head(s)>> \o collapse_spaces(Tail(s))

\* normalized_line of parse_line
normalize(line) == collapse_spaces(strip(line))

\* position of the first c in s at or after position from, 0 when there is none
FirstIndex(s, c, from) ==
  IF \E i \in from..Len(s) : s[i] = c
  THEN CHOOSE i \in from..Len(s) : s[i] = c /\ \A j \in from..(i - 1) : s[j] # c
  ELSE 0

\* str.split(sep, 2): at most three parts
split2(s, sep) ==
  LET p1 == FirstIndex(s, sep, 1)
      p2 == IF p1 = 0 THEN 0 ELSE FirstIndex(s, sep, p1 + 1)
  IN  IF p1 = 0 THEN <<s>>
      ELSE IF p2 = 0 THEN <<SubSeq(s, 1, p1 - 1), SubSeq(s, p1 + 1, Len(s))>>
      ELSE <<SubSeq(s, 1, p1 - 1), SubSeq(s, p1 + 1, p2 - 1), SubSeq(s, p2 + 1, Len(s))>>

\* number of leading characters of s, from position from, that satisfy the class
RECURSIVE DigitRun(_, _)
DigitRun(s, from) ==
  IF from <= Len(s) /\ IsDigit(s[from]) THEN 1 + DigitRun(s, from + 1) ELSE 0

RECURSIVE SpaceRun(_, _)
SpaceRun(s, from) ==
  IF from <= Len(s) /\ IsSpace(s[from]) THEN 1 + SpaceRun(s, from + 1) ELSE 0

\* ------------------------------------------------------------------------
\* Dates
\* ------------------------------------------------------------------------

\* current_date = None
None == <<>>

IsLeap(y) == (y % 4 = 0 /\ y % 100 # 0) \/ y % 400 = 0

DaysInMonth(y, m) ==
  IF m = 2 THEN (IF IsLeap(y) THEN 29 ELSE 28)
  ELSE IF m \in {4, 6, 9, 11} THEN 30 ELSE 31

\* datetime(year, month, day) raises ValueError outside these ranges
ValidCalendarDate(y, m, d) ==
  /\ y >= 1
  /\ m \in 1..12
  /\ d >= 1 /\ d <= DaysInMonth(y, m)

\* a > b on dates <<year, month, day>>
DateAfter(a, b) ==
  \/ a[1] > b[1]
  \/ a[1] = b[1] /\ a[2] > b[2]
  \/ a[1] = b[1] /\ a[2] = b[2] /\ a[3] > b[3]

\* re.match(r'^(?P<year>\d{4})-?(?P<month>\d{2})-?(?P<day>\d{2})$', line):
\* each hyphen is optional on its own.
DateMatch(line) ==
  LET n    == Len(line)
      h1   == IF n >= 5 /\ line[5] = "-" THEN 1 ELSE 0
      mpos == 5 + h1
      h2   == IF n >= mpos + 2 /\ line[mpos + 2] = "-" THEN 1 ELSE 0
      dpos == mpos + 2 + h2
  IN  IF /\ n = dpos + 1
         /\ AllDigits(SubSeq(line, 1, 4))
         /\ AllDigits(SubSeq(line, mpos, mpos + 1))
         /\ AllDigits(SubSeq(line, dpos, dpos + 1))
      THEN [matched |-> TRUE,
            year  |-> int(SubSeq(line, 1, 4)),
            month |-> int(SubSeq(line, mpos, mpos + 1)),
            day   |-> int(SubSeq(line, dpos, dpos + 1))]
      ELSE [matched |-> FALSE, year |-> 0, month |-> 0, day |-> 0]

\* parse_date_line without the comparison with self.now
date_of_match_any_day(date_match, today) ==
  IF ~date_match.matched
  THEN [ok |-> FALSE, date |-> None, msg |-> "Pattern not matched"]
  ELSE IF ~ValidCalendarDate(date_match.year, date_match.month, date_match.day)
  THEN [ok |-> FALSE, date |-> None, msg |-> "ValueError"]
  ELSE [ok |-> TRUE, date |-> <<date_match.year, date_match.month, date_match.day>>,
        msg |-> ""]

\* LogJammin.parse_date_line. today is the calendar day of self.now: the date
\* built at midnight is later than now exactly when its day is after today.
date_of_match(date_match, today) ==
  IF ~date_match.matched
  THEN [ok |-> FALSE, date |-> None, msg |-> "Pattern not matched"]
  ELSE IF ~ValidCalendarDate(date_match.year, date_match.month, date_match.day)
  THEN [ok |-> FALSE, date |-> None, msg |-> "ValueError"]
  ELSE IF DateAfter(<<date_match.year, date_match.month, date_match.day>>, today)
  THEN [ok |-> FALSE, date |-> None, msg |-> "Date is in the future"]
  ELSE [ok |-> TRUE, date |-> <<date_match.year, date_match.month, date_match.day>>,
        msg |-> ""]

parse_date_line(line, today) == date_of_match(DateMatch(line), today)

\* ------------------------------------------------------------------------
\* Tickets
\* ------------------------------------------------------------------------

RECURSIVE AlnumRun(_, _)
AlnumRun(s, from) ==
  IF from <= Len(s) /\ IsAlnum(s[from]) THEN 1 + AlnumRun(s, from + 1) ELSE 0

\* re.match(r'^[A-Z][A-Z0-9]+-\d+$', ticket_str, re.IGNORECASE)
TicketMatch(s) ==
  LET a == AlnumRun(s, 2)
      d == DigitRun(s, a + 3)
  IN  /\ Len(s) >= 1 /\ IsLetter(s[1])
      /\ a >= 1
      /\ Len(s) >= a + 2 /\ s[a + 2] = "-"
      /\ d >= 1
      /\ a + 2 + d = Len(s)

\* ticket.split('-')[0]
TicketPrefix(t) == SubSeq(t, 1, FirstIndex(t, "-", 1) - 1)

\* int(ticket.split('-')[1])
TicketNumber(t) == int(SubSeq(t, FirstIndex(t, "-", 1) + 1, Len(t)))

\* ------------------------------------------------------------------------
\* Time expressions
\* ------------------------------------------------------------------------

RECURSIVE Pow2(_)
Pow2(n) == IF n <= 0 THEN 1 ELSE 2 * Pow2(n - 1)

RECURSIVE Pow10(_)
Pow10(n) == IF n <= 0 THEN 1 ELSE 10 * Pow10(n - 1)

\* 2^p modulo d
RECURSIVE Pow2Mod(_, _)
Pow2Mod(p, d) == IF p <= 0 THEN 1 % d ELSE (2 * Pow2Mod(p - 1, d)) % d

\* floor(log2(i)) for i >= 1
RECURSIVE Log2Floor(_)
Log2Floor(i) == IF i <= 1 THEN 0 ELSE 1 + Log2Floor(i \div 2)

\* the least e >= 1 with n * 2^e >= d, for 0 < n < d: n/d lies in [2^-e, 2^(1-e))
RECURSIVE NegExponent(_, _, _)
NegExponent(n, d, e) ==
  IF n <= 0 \/ n * Pow2(e) >= d THEN e ELSE NegExponent(n, d, e + 1)

\* the j with 2^j < m <= 2^(j+1): the binary exponent of the doubles just below m
RECURSIVE ExponentBelow(_, _)
ExponentBelow(m, j) == IF Pow2(j + 1) >= m THEN j ELSE ExponentBelow(m, j + 1)

\* math.floor(60 * (dec_hours % 1)) for dec_hours = float("<ip>.<frac>"), in
\* IEEE 754 binary64 with round-to-nearest-even (ip an integer, frac the digits
\* after the point, n = int(frac), d = 10^len(frac)).
\*   - float() rounds ip + n/d to 53 significant bits: with e the binary
\*     exponent of the value and p = 52 - e, the fraction kept is q / 2^p, q the
\*     integer nearest to n * 2^p / d; r = (n * 2^p) mod d tells the direction.
\*   - % 1 is exact; 60 * fraction is rounded once more to 53 bits.
\*   - When 60 * n / d is not a whole number the two roundings are far too small
\*     to move the floor. When it is a whole number m, the floor is m if float()
\*     was exact or rounded up, and if it rounded down the product lies
\*     60 * r / (d * 2^p) below m and is m again only when that is within half a
\*     unit in the last place of the doubles below m.
\* Exact for values below 2^20 with at most four digits after the point.
FloatMinutes(ip, frac) ==
  LET n == int(frac)
      d == Pow10(Len(frac))
      e == IF ip >= 1 THEN Log2Floor(ip) ELSE 0 - NegExponent(n, d, 1)
      p == 52 - e
      r == (n * Pow2Mod(p, d)) % d
      m == (60 * n) \div d
      x == 1 + e - ExponentBelow(m, 0)
  IN  IF n = 0 THEN 0
      ELSE IF (60 * n) % d # 0 THEN m
      ELSE IF r = 0 \/ 2 * r > d THEN m
      ELSE IF (IF x >= 0 THEN 60 * r * Pow2(x) <= d ELSE 60 * r <= d * Pow2(0 - x))
      THEN m
      ELSE m - 1

\* re.match('^(\d+\.\d+|\.\d+|\d+)\s*H?$', time_str, re.IGNORECASE) and the
\* hours and minutes computed from its group 1
DecHoursMatch(s) ==
  LET a    == DigitRun(s, 1)
      dot  == Len(s) >= a + 1 /\ s[a + 1] = "."
      b    == IF dot THEN DigitRun(s, a + 2) ELSE 0
      glen == IF dot /\ b >= 1 THEN a + 1 + b ELSE a
      sp   == SpaceRun(s, glen + 1)
      hpos == glen + sp + 1
      hlen == IF hpos <= Len(s) /\ s[hpos] \in {"H", "h"} THEN 1 ELSE 0
      ip   == int(SubSeq(s, 1, a))
      frac == IF dot /\ b >= 1 THEN SubSeq(s, a + 2, a + 1 + b) ELSE <<>>
  IN  IF glen >= 1 /\ glen + sp + hlen = Len(s)
      THEN [matched |-> TRUE, hours |-> ip,
            minutes |-> IF frac = <<>> THEN 0 ELSE FloatMinutes(ip, frac)]
      ELSE [matched |-> FALSE, hours |-> 0, minutes |-> 0]

\* re.match(r'((?P<hours>\d+)\s*H)?\s*((?P<minutes>\d+)\s*M)?', time_str,
\* re.IGNORECASE): a match of a prefix of time_str, which always exists
HoursMinsMatch(s) ==
  LET a    == DigitRun(s, 1)
      hpos == a + SpaceRun(s, a + 1) + 1
      hgrp == a >= 1 /\ hpos <= Len(s) /\ s[hpos] \in {"H", "h"}
      q    == IF hgrp THEN hpos + 1 + SpaceRun(s, hpos + 1) ELSE 1
      b    == DigitRun(s, q)
      mpos == q + b + SpaceRun(s, q + b)
      mgrp == b >= 1 /\ mpos <= Len(s) /\ s[mpos] \in {"M", "m"}
  IN  [hours   |-> IF hgrp THEN int(SubSeq(s, 1, a)) ELSE 0,
       minutes |-> IF mgrp THEN int(SubSeq(s, q, q + b - 1)) ELSE 0]

\* hours and minutes of parse_time_log_line
time_of_matches(dec_hours_match, hours_mins_match) ==
  IF dec_hours_match.matched
  THEN [hours |-> dec_hours_match.hours, minutes |-> dec_hours_match.minutes]
  ELSE hours_mins_match

parse_time(time_str) == time_of_matches(DecHoursMatch(time_str), HoursMinsMatch(time_str))

\* the fields of a line without the check that the time is not zero
fields_of_parts_allowing_zero(ticket_str, time, description) ==
  IF ~TicketMatch(ticket_str)
  THEN [ok |-> FALSE, ticket |-> <<>>, time |-> [hours |-> 0, minutes |-> 0],
        description |-> <<>>, msg |-> "Ticket pattern not matched"]
  ELSE [ok |-> TRUE, ticket |-> upper(ticket_str), time |-> time,
        description |-> description, msg |-> ""]

\* LogJammin.parse_time_log_line up to the check of the time: the fields of
\* the line, or the exception raised. The ticket validator is consulted after
\* this, by the caller of this operator.
FieldsFailed(m) ==
  [ok |-> FALSE, ticket |-> <<>>, time |-> [hours |-> 0, minutes |-> 0],
   description |-> <<>>, msg |-> m]

fields_of_parts(ticket_str, time, description) ==
  IF ~TicketMatch(ticket_str) THEN FieldsFailed("Ticket pattern not matched")
  ELSE IF time.hours = 0 /\ time.minutes = 0 THEN FieldsFailed("Time pattern not matched")
  ELSE [ok |-> TRUE, ticket |-> upper(ticket_str), time |-> time,
        description |-> description, msg |-> ""]

\* a grammar in which a line with no comma is an entry of a whole day
fields_of_split_whole_day(parts) ==
  IF Len(parts) = 1
  THEN [ok |-> TRUE, ticket |-> <<"D", "A", "Y", "-", "1">>,
        time |-> [hours |-> 8, minutes |-> 0], description |-> parts[1], msg |-> ""]
  ELSE fields_of_parts(strip(parts[1]), parse_time(strip(parts[2])),
                       IF Len(parts) > 2 THEN strip(parts[3]) ELSE <<>>)

fields_of_split(parts) ==
  fields_of_parts(strip(parts[1]),
                  parse_time(IF Len(parts) > 1 THEN strip(parts[2]) ELSE <<>>),
                  IF Len(parts) > 2 THEN strip(parts[3]) ELSE <<>>)

parse_time_log_fields(line) == fields_of_split(split2(line, ","))

\* ------------------------------------------------------------------------
\* Bounds and inputs
\* ------------------------------------------------------------------------

\* the longest file, in lines
MaxLines == 4

\* the calendar day of self.now in the runs that are checked
Today == <<2024, 1, 5>>

\* The lines a file is made of: three date headings (hyphenated, compact, and
\* one day after Today), three time entries, a time entry of zero duration and
\* a blank line.
LineDateHyphens == <<"2", "0", "2", "4", "-", "0", "1", "-", "0", "5">>
LineDateCompact == <<"2", "0", "2", "4", "0", "1", "0", "4">>
LineDateFuture  == <<"2", "0", "2", "4", "-", "0", "1", "-", "0", "6">>
LineProj10 ==
  <<"P", "R", "O", "J", "-", "1", "0", ",", " ", "1", "h", "3", "0", "m", ",", " ", "a", ",", "b">>
LineProj2 == <<"p", "r", "o", "j", "-", "2", " ", ",", "\t", "1", ".", "5">>
LineAb7   == <<" ", "A", "B", "-", "7", ",", "4", "5", "m">>
LineZero  == <<"P", "R", "O", "J", "-", "2", ",", " ", "0">>
LineBlank == <<" ", "\t">>

LinePool ==
  {LineDateHyphens, LineDateCompact, LineDateFuture,
   LineProj10, LineProj2, LineAb7, LineZero, LineBlank}

Files == UNION {[1..n -> LinePool] : n \in 0..MaxLines}

\* what jira.issue() does for a ticket: it returns, or it raises because the
\* ticket is absent or because the lookup failed
ValidatorResults == {"found", "absent", "lookup_error"}

\* what jira.add_worklog() does: it returns or it raises
SinkResults == {"recorded", "sink_error"}

\* ------------------------------------------------------------------------
\* State
\* ------------------------------------------------------------------------

VARIABLES
  lines,         \* lines of load_logs: the file, read whole before parsing
  now,           \* self.now, as its calendar day
  parse_only,    \* self.parse_only
  pc,            \* where the run is: "load", "prompt", "upload", "exit_success", "exit_error"
  line_no,       \* line_no of load_logs
  mode,          \* self.mode
  current_date,  \* self.current_date
  logs,          \* self.logs
  tickets,       \* self.tickets
  summary,       \* what print_summary reported, None before it
  upload_i,      \* the number of logs the upload loop is done with
  err,           \* the error the run exited with, NoErr when none
  calls,         \* the calls made on self.jira so far, in order, each with its outcome
  headings,      \* history: the date headings accepted, with their line numbers
  emitted,       \* history: the entries added, in file order, with their line numbers
  run,           \* which run of the program this is (1 or 2)
  first          \* history: how the first run ended, None during the first run

vars ==
  <<lines, now, parse_only, pc, line_no, mode, current_date, logs, tickets, summary,
    upload_i, err, calls, headings, emitted, run, first>>

NoErr == [line_no |-> 0, text |-> <<>>, wraps |-> 0, msg |-> ""]

InSeq(x, s) == \E i \in 1..Len(s) : s[i] = x

\* ------------------------------------------------------------------------
\* The parser (methods of LogJammin, on self as a record)
\* ------------------------------------------------------------------------

\* the object the methods work on
Self ==
  [mode |-> mode, current_date |-> current_date, parse_only |-> parse_only,
   logs |-> logs, tickets |-> tickets, now |-> now, calls |-> calls]

\* assert_ticket_exists without the check of self.tickets
assert_ticket_exists_unvisited(self, ticket, vres) ==
  IF vres = "found"
  THEN [self |-> [self EXCEPT !.tickets = Append(@, ticket),
                              !.calls = Append(@, [op |-> "issue", arg |-> ticket,
                                                   result |-> vres])],
        raised |-> ""]
  ELSE [self |-> [self EXCEPT !.calls = Append(@, [op |-> "issue", arg |-> ticket,
                                                   result |-> vres])],
        raised |-> "Failed to get ticket info"]

\* assert_ticket_exists swallowing the exception of jira.issue()
assert_ticket_exists_lenient(self, ticket, vres) ==
  IF InSeq(ticket, self.tickets) THEN [self |-> self, raised |-> ""]
  ELSE [self |-> [self EXCEPT !.tickets = Append(@, ticket),
                              !.calls = Append(@, [op |-> "issue", arg |-> ticket,
                                                   result |-> vres])],
        raised |-> ""]

\* LogJammin.assert_ticket_exists; vres is what jira.issue() does if it is called
assert_ticket_exists(self, ticket, vres) ==
  IF InSeq(ticket, self.tickets) THEN [self |-> self, raised |-> ""]
  ELSE LET called == [self EXCEPT !.calls = Append(@, [op |-> "issue", arg |-> ticket,
                                                        result |-> vres])]
       IN  IF vres = "found"
           THEN [self |-> [called EXCEPT !.tickets = Append(@, ticket)], raised |-> ""]
           ELSE [self |-> called, raised |-> "Failed to get ticket info"]

\* LogJammin.parse_time_log_line
validated_fields(self, fields, vres) ==
  IF ~fields.ok THEN [self |-> self, raised |-> fields.msg, fields |-> fields]
  ELSE IF ~self.parse_only
  THEN [fields |-> fields] @@ assert_ticket_exists(self, fields.ticket, vres)
  ELSE [self |-> self, raised |-> "", fields |-> fields]

parse_time_log_line(self, line, vres) ==
  validated_fields(self, parse_time_log_fields(line), vres)

\* add_log stamping the entry with the day of the run instead of the heading
add_log_dated_now(self, ticket, time, description) ==
  [self EXCEPT !.logs = Append(@, [date |-> self.now, ticket |-> ticket,
                                   description |-> description, time |-> time])]

\* LogJammin.add_log
add_log(self, ticket, time, description) ==
  [self EXCEPT !.logs = Append(@, [date |-> self.current_date, ticket |-> ticket,
                                   description |-> description, time |-> time])]

\* parse_line in mode 'date'
after_date(self, parsed) ==
  IF parsed.ok
  THEN [self |-> [self EXCEPT !.current_date = parsed.date, !.mode = "time_log"],
        raised |-> "", wraps |-> 0]
  ELSE [self |-> self, raised |-> parsed.msg, wraps |-> 1]

parse_line_date(self, line) == after_date(self, parse_date_line(normalize(line), self.now))

\* parse_line in mode 'time_log'
after_time_log(parsed) ==
  IF parsed.raised = ""
  THEN [self |-> [add_log(parsed.self, parsed.fields.ticket, parsed.fields.time,
                          parsed.fields.description)
                    EXCEPT !.mode = "date_or_time_log"],
        raised |-> "", wraps |-> 0]
  ELSE [self |-> parsed.self, raised |-> parsed.raised, wraps |-> 1]

parse_line_time_log(self, line, vres) ==
  after_time_log(parse_time_log_line(self, normalize(line), vres))

\* mode 'date_or_time_log' without the second attempt: the line as a date only
parse_line_date_no_retry(self, line, vres) ==
  parse_line_date([self EXCEPT !.mode = "date"], line)

\* a retry that reports the failure of the date attempt when both fail
first_failure_kept(as_date, as_time) ==
  IF as_time.raised = "" THEN as_time
  ELSE [as_time EXCEPT !.raised = as_date.raised, !.wraps = 2]

retry_reporting_date_failure(as_date, line, vres) ==
  IF as_date.raised = "" THEN as_date
  ELSE first_failure_kept(as_date,
         parse_line_time_log([as_date.self EXCEPT !.mode = "time_log"], line, vres))

\* parse_line in mode 'date_or_time_log': the line as a date, and if that
\* raises, the line as a time log; a second failure is wrapped once more
rewrapped(as_time) ==
  IF as_time.raised = "" THEN as_time ELSE [as_time EXCEPT !.wraps = 2]

retry_as_time_log(as_date, line, vres) ==
  IF as_date.raised = "" THEN as_date
  ELSE rewrapped(parse_line_time_log([as_date.self EXCEPT !.mode = "time_log"], line, vres))

parse_line_date_or_time_log(self, line, vres) ==
  retry_as_time_log(parse_line_date([self EXCEPT !.mode = "date"], line), line, vres)

\* a parse_line that tries a line as a date in mode 'time_log' too
parse_line_date_always_tried(self, line, vres) ==
  IF self.mode = "date" THEN parse_line_date(self, line)
  ELSE parse_line_date_or_time_log(self, line, vres)

\* LogJammin.parse_line: the object after the call, the message of the
\* exception raised ("" when none) and how many times parse_line wrapped it
parse_line(self, line, vres) ==
  IF self.mode = "date" THEN parse_line_date(self, line)
  ELSE IF self.mode = "time_log" THEN parse_line_time_log(self, line, vres)
  ELSE IF self.mode = "date_or_time_log" THEN parse_line_date_or_time_log(self, line, vres)
  ELSE [self |-> self, raised |-> "Invalid mode", wraps |-> 0]

\* ------------------------------------------------------------------------
\* Sorting and summary
\* ------------------------------------------------------------------------

\* a < b on strings, by code point
RECURSIVE StrLess(_, _)
StrLess(a, b) ==
  IF b = <<>> THEN FALSE
  ELSE IF a = <<>> THEN TRUE
  ELSE IF Head(a) # Head(b) THEN Ord(Head(a)) < Ord(Head(b))
  ELSE StrLess(Tail(a), Tail(b))

\* a sort key without the ticket number
SortKeyWithoutNumber(log) ==
  [date |-> log.date, prefix |-> TicketPrefix(log.ticket), number |-> 0]

\* the key of the sort of load_logs
SortKey(log) ==
  [date |-> log.date, prefix |-> TicketPrefix(log.ticket), number |-> TicketNumber(log.ticket)]

\* a < b on sort keys: tuples compare item by item
KeyLess(a, b) ==
  \/ DateAfter(b.date, a.date)
  \/ a.date = b.date /\ StrLess(a.prefix, b.prefix)
  \/ a.date = b.date /\ a.prefix = b.prefix /\ a.number < b.number

\* log put into a sorted list after the logs whose key is not greater
RECURSIVE InsertSorted(_, _)
InsertSorted(sorted, log) ==
  IF sorted = <<>> THEN <<log>>
  ELSE IF KeyLess(SortKey(log), SortKey(Head(sorted))) THEN <<log>> \o sorted
  ELSE <<Head(sorted)>> \o InsertSorted(Tail(sorted), log)

\* self.logs.sort(key=...): a stable sort
RECURSIVE sort_logs(_)
sort_logs(ls) ==
  IF ls = <<>> THEN <<>>
  ELSE InsertSorted(sort_logs(SubSeq(ls, 1, Len(ls) - 1)), ls[Len(ls)])

\* the position of the key date in logs_by_date, 0 when it is not a key
GroupIndex(groups, date) ==
  IF \E i \in 1..Len(groups) : groups[i].date = date
  THEN CHOOSE i \in 1..Len(groups) : groups[i].date = date
  ELSE 0

\* a summary whose groups are keyed by year and month
add_to_groups_by_month(groups, i, log, log_minutes) ==
  IF \E k \in 1..Len(groups) : SubSeq(groups[k].date, 1, 2) = SubSeq(log.date, 1, 2)
  THEN [groups EXCEPT ![Len(groups)].logs = Append(@, log),
                      ![Len(groups)].total_time_minutes = @ + log_minutes]
  ELSE Append(groups, [date |-> log.date, logs |-> <<log>>,
                       total_time_minutes |-> log_minutes])

\* one turn of the first loop of print_summary: the log goes to the group of
\* its date (i, made when i is 0) and its minutes are added to that group
add_to_groups(groups, i, log, log_minutes) ==
  IF i = 0
  THEN Append(groups, [date |-> log.date, logs |-> <<log>>,
                       total_time_minutes |-> log_minutes])
  ELSE [groups EXCEPT ![i].logs = Append(@, log),
                      ![i].total_time_minutes = @ + log_minutes]

add_log_to_groups(groups, log) ==
  add_to_groups(groups, GroupIndex(groups, log.date), log,
                60 * log.time.hours + log.time.minutes)

\* logs_by_date after the first loop of print_summary, an OrderedDict: the
\* groups in the order in which their dates first occur
RECURSIVE logs_by_date(_)
logs_by_date(ls) ==
  IF ls = <<>> THEN <<>>
  ELSE add_log_to_groups(logs_by_date(SubSeq(ls, 1, Len(ls) - 1)), ls[Len(ls)])

\* total_minutes: the totals of the groups added up in the second loop
RECURSIVE SumTotals(_)
SumTotals(groups) ==
  IF groups = <<>> THEN 0
  ELSE SumTotals(SubSeq(groups, 1, Len(groups) - 1)) + groups[Len(groups)].total_time_minutes

\* what print_summary prints for the groups and for the whole, as data
summary_of(groups, n_logs, total_minutes) ==
  [groups |-> [i \in 1..Len(groups) |->
                 [date |-> groups[i].date, logs |-> groups[i].logs,
                  total_time_minutes |-> groups[i].total_time_minutes,
                  hours   |-> groups[i].total_time_minutes \div 60,
                  minutes |-> groups[i].total_time_minutes % 60]],
   days |-> Len(groups), n_logs |-> n_logs,
   total_minutes |-> total_minutes,
   hours |-> total_minutes \div 60, minutes |-> total_minutes % 60]

summary_of_groups(groups, n_logs) == summary_of(groups, n_logs, SumTotals(groups))

\* LogJammin.print_summary
print_summary(ls) == summary_of_groups(logs_by_date(ls), Len(ls))

\* ------------------------------------------------------------------------
\* The run
\* ------------------------------------------------------------------------

\* the attributes of class LogJammin a new process starts with; previous is
\* the list of the process before, which a new process does not see
\* a list shared with the process before
ClassLogsShared(previous) == previous

ClassLogs(previous) == <<>>

\* a run starting in the mode a run is in after a time entry
ClassModeAfterEntry == "date_or_time_log"

ClassMode == "date"

ClassCurrentDate == None

ClassTickets(previous) == <<>>

\* the state at 'Loading logs...' of a process started on file with the
\* configuration loaded and the connection made
Start(file, day, po) ==
  /\ lines = file
  /\ now = day
  /\ parse_only = po
  /\ pc = "load"
  /\ line_no = 0
  /\ mode = ClassMode
  /\ current_date = ClassCurrentDate
  /\ summary = None
  /\ upload_i = 0
  /\ err = NoErr
  /\ calls = <<>>
  /\ headings = <<>>
  /\ emitted = <<>>

Init ==
  /\ \E file \in Files, po \in BOOLEAN : Start(file, Today, po)
  /\ logs = ClassLogs(<<>>)
  /\ tickets = ClassTickets(<<>>)
  /\ run = 1
  /\ first = None

\* a loop in which a blank line ends the block of entries of a date
SkipBlankLineEndingBlock ==
  /\ pc = "load"
  /\ line_no < Len(lines)
  /\ Len(strip(lines[line_no + 1])) = 0
  /\ line_no' = line_no + 1
  /\ mode' = IF mode = "date_or_time_log" THEN "date" ELSE mode
  /\ UNCHANGED <<lines, now, parse_only, pc, current_date, logs, tickets, summary,
                 upload_i, err, calls, headings, emitted, run, first>>

\* load_logs, one turn of the loop on a blank line: continue
SkipBlankLine ==
  /\ pc = "load"
  /\ line_no < Len(lines)
  /\ Len(strip(lines[line_no + 1])) = 0
  /\ line_no' = line_no + 1
  /\ UNCHANGED <<lines, now, parse_only, pc, mode, current_date, logs, tickets, summary,
                 upload_i, err, calls, headings, emitted, run, first>>

\* a loop that goes on to the next line when parse_line raised
AfterParseLineSkippingErrors(n, r) ==
  /\ line_no' = n
  /\ mode' = r.self.mode
  /\ current_date' = r.self.current_date
  /\ logs' = r.self.logs
  /\ tickets' = r.self.tickets
  /\ calls' = r.self.calls
  /\ pc' = "load"
  /\ err' = err
  /\ headings' = IF r.raised = "" /\ r.self.mode = "time_log"
                 THEN Append(headings, [line_no |-> n, date |-> r.self.current_date])
                 ELSE headings
  /\ emitted' = IF r.raised = "" /\ r.self.mode = "date_or_time_log"
                THEN Append(emitted, [line_no |-> n, log |-> r.self.logs[Len(r.self.logs)]])
                ELSE emitted

\* the state after parse_line on line n returned or raised (r is what it did)
AfterParseLine(n, r) ==
  /\ line_no' = n
  /\ mode' = r.self.mode
  /\ current_date' = r.self.current_date
  /\ logs' = r.self.logs
  /\ tickets' = r.self.tickets
  /\ calls' = r.self.calls
  /\ pc' = IF r.raised = "" THEN "load" ELSE "exit_error"
  /\ err' = IF r.raised = "" THEN err
            ELSE [line_no |-> n, text |-> lines[n], wraps |-> r.wraps, msg |-> r.raised]
  /\ headings' = IF r.raised = "" /\ r.self.mode = "time_log"
                 THEN Append(headings, [line_no |-> n, date |-> r.self.current_date])
                 ELSE headings
  /\ emitted' = IF r.raised = "" /\ r.self.mode = "date_or_time_log"
                THEN Append(emitted, [line_no |-> n, log |-> r.self.logs[Len(r.self.logs)]])
                ELSE emitted

\* load_logs, one turn of the loop on a line that is not blank: parse_line,
\* and on an exception the exit of the run through exit_with_error
ParseNextLine ==
  /\ pc = "load"
  /\ line_no < Len(lines)
  /\ Len(strip(lines[line_no + 1])) # 0
  /\ \E vres \in ValidatorResults :
       AfterParseLine(line_no + 1, parse_line(Self, lines[line_no + 1], vres))
  /\ UNCHANGED <<lines, now, parse_only, summary, upload_i, run, first>>

\* the end of load_logs (the sort) and __init__ up to the prompt: 'No logs
\* found', print_summary, and in parse-only mode the exit
FinishLoad ==
  /\ pc = "load"
  /\ line_no = Len(lines)
  /\ logs' = sort_logs(logs)
  /\ IF Len(logs) = 0
     THEN /\ pc' = "exit_error"
          /\ err' = [NoErr EXCEPT !.msg = "No logs found"]
          /\ summary' = summary
     ELSE /\ pc' = IF parse_only THEN "exit_success" ELSE "prompt"
          /\ err' = err
          /\ summary' = print_summary(logs')
  /\ UNCHANGED <<lines, now, parse_only, line_no, mode, current_date, tickets, upload_i,
                 calls, headings, emitted, run, first>>

\* 'Upload logs to JIRA? (y/n)': n exits, y starts the upload (any other
\* answer asks again and changes nothing)
Prompt ==
  /\ pc = "prompt"
  /\ \E answer \in {"y", "n"} :
       pc' = IF answer = "n" THEN "exit_success" ELSE "upload"
  /\ UNCHANGED <<lines, now, parse_only, line_no, mode, current_date, logs, tickets,
                 summary, upload_i, err, calls, headings, emitted, run, first>>

\* upload_log: the call made on jira.add_worklog for a log
upload_log(log, sres) == [op |-> "add_worklog", arg |-> log, result |-> sres]

\* an upload loop that goes on to the next log when upload_log raised
after_upload_continuing(i, n, sres) ==
  [i |-> i + 1, pc |-> IF i + 1 = n THEN "exit_success" ELSE "upload"]

\* the upload loop of __init__ after upload_log on log i + 1 of n returned or
\* raised: the number of logs done and where the run goes
after_upload(i, n, sres) ==
  IF sres = "recorded"
  THEN [i |-> i + 1, pc |-> IF i + 1 = n THEN "exit_success" ELSE "upload"]
  ELSE [i |-> i, pc |-> "exit_error"]

\* one turn of the upload loop of __init__: upload_log on the next log; an
\* exception exits the run, and so does the end of the list
UploadLog ==
  /\ pc = "upload"
  /\ upload_i < Len(logs)
  /\ \E sres \in SinkResults :
       /\ calls' = Append(calls, upload_log(logs[upload_i + 1], sres))
       /\ upload_i' = after_upload(upload_i, Len(logs), sres).i
       /\ pc' = after_upload(upload_i, Len(logs), sres).pc
       /\ err' = IF after_upload(upload_i, Len(logs), sres).pc = "exit_error"
                 THEN [NoErr EXCEPT !.msg = "add_worklog failed"]
                 ELSE err
  /\ UNCHANGED <<lines, now, parse_only, line_no, mode, current_date, logs, tickets,
                 summary, headings, emitted, run, first>>

\* the program run once more on the same file, in a new process
RunAgain ==
  /\ pc \in {"exit_success", "exit_error"}
  /\ run = 1
  /\ run' = 2
  /\ first' = [pc |-> pc, logs |-> logs, err |-> err, parse_only |-> parse_only]
  /\ parse_only' \in BOOLEAN
  /\ pc' = "load"
  /\ line_no' = 0
  /\ mode' = ClassMode
  /\ current_date' = ClassCurrentDate
  /\ logs' = ClassLogs(logs)
  /\ tickets' = ClassTickets(tickets)
  /\ summary' = None
  /\ upload_i' = 0
  /\ err' = NoErr
  /\ calls' = <<>>
  /\ headings' = <<>>
  /\ emitted' = <<>>
  /\ UNCHANGED <<lines, now>>

Next == SkipBlankLine \/ ParseNextLine \/ FinishLoad \/ Prompt \/ UploadLog

Spec == Init /\ [][Next]_vars

NextTwice == Next \/ RunAgain

\* two runs on the same file
SpecTwice == Init /\ [][NextTwice]_vars

\* Runs on the files of one line made of the characters 0, 1 and - : every
\* such line of up to MaxDateLen characters meets the date parser.
MaxDateLen == 10

DateInputs == UNION {[1..n -> {"0", "1", "-"}] : n \in 0..MaxDateLen}

InitDate ==
  /\ \E input \in DateInputs, po \in BOOLEAN : Start(<<input>>, Today, po)
  /\ logs = ClassLogs(<<>>)
  /\ tickets = ClassTickets(<<>>)
  /\ run = 1
  /\ first = None

NextDate == SkipBlankLine \/ ParseNextLine \/ FinishLoad

SpecDate == InitDate /\ [][NextDate]_vars

\* Runs on the files of two lines, a date heading and a line that meets the
\* time entry parser: every ticket segment of up to MaxTicketLen characters
\* (with a time of one hour) and every time segment of up to MaxTimeLen
\* characters (with the ticket AB-1), over the characters below, the segments
\* that documents of the program give as examples, and a line with no comma.
MaxTicketLen == 4

MaxTimeLen == 4

TicketChars == {"a", "B", "1", "-", ArabicIndicOne, KelvinSign}

TimeChars == {"0", "1", "5", ".", "h", "m", " "}

TicketExamples ==
  {<<"p", "r", "o", "j", "-", "1", "2", "3">>, <<"P", "R", "O", "J", "-", "1", "2", "3">>,
   <<"1", "2", "3", "-", "P", "R", "O", "J">>, <<"A", "-", "1">>}

TimeExamples ==
  {<<"1", ".", "9", "9", "9", "h">>, <<"1", ".", "5", "h">>, <<"1", "h", "3", "0", "m">>,
   <<"1", "h", "3", "0">>, <<"1", "h", " ", "x">>, <<"3", "0", "m", "1", "h">>,
   <<"2", ".", "3">>, <<"0", "h", "0", "m">>, <<"2", "H">>,
   <<"1", "H", " ", "3", "0", "M">>, <<"4", "5", "m">>}

TicketInputs == UNION {[1..n -> TicketChars] : n \in 0..MaxTicketLen} \cup TicketExamples

TimeInputs == UNION {[1..n -> TimeChars] : n \in 0..MaxTimeLen} \cup TimeExamples

TicketAb1 == <<"A", "B", "-", "1">>

EntryLines ==
  {ticket_str \o <<",">> \o <<"1", "h">> : ticket_str \in TicketInputs}
    \cup {TicketAb1 \o <<",">> \o time_str : time_str \in TimeInputs}
    \cup {TicketAb1}

InitEntry ==
  /\ \E entry \in EntryLines, po \in BOOLEAN : Start(<<LineDateHyphens, entry>>, Today, po)
  /\ logs = ClassLogs(<<>>)
  /\ tickets = ClassTickets(<<>>)
  /\ run = 1
  /\ first = None

NextEntry == ParseNextLine \/ FinishLoad

SpecEntry == InitEntry /\ [][NextEntry]_vars

\* Runs on the files of three lines, a date heading, a time entry and a line
\* read in mode 'date_or_time_log': every string of up to MaxDateLen characters
\* 1 and - (the date headings among them), each of them also as the ticket
\* segment of a time entry, and the lines of SpecEntry.
DateShapedInputs == UNION {[1..n -> {"1", "-"}] : n \in 0..MaxDateLen}

EitherLines ==
  DateShapedInputs
    \cup {ticket_str \o <<",">> \o <<"1", "h">> : ticket_str \in DateShapedInputs}
    \cup EntryLines

InitEither ==
  /\ \E third \in EitherLines, po \in BOOLEAN :
       Start(<<LineDateHyphens, LineAb7, third>>, Today, po)
  /\ logs = ClassLogs(<<>>)
  /\ tickets = ClassTickets(<<>>)
  /\ run = 1
  /\ first = None

NextEither == SkipBlankLine \/ ParseNextLine \/ FinishLoad

SpecEither == InitEither /\ [][NextEither]_vars

\* ------------------------------------------------------------------------
\* Properties
\* ------------------------------------------------------------------------

IsBlank(line) == Len(strip(line)) = 0

\* the load loop is about to hand line line_no + 1 to parse_line
AboutToParse == pc = "load" /\ line_no < Len(lines) /\ ~IsBlank(lines[line_no + 1])

NextLine == normalize(lines[line_no + 1])

\* the number of times x occurs in s
Count(x, s) == Cardinality({i \in 1..Len(s) : s[i] = x})

\* the entries added so far, in file order
EmittedLogs == [i \in 1..Len(emitted) |-> emitted[i].log]

\* s and t hold the same items the same number of times
SameItems(s, t) ==
  /\ Len(s) = Len(t)
  /\ \A i \in 1..Len(s) : Count(s[i], s) = Count(s[i], t)

\* the calls of one kind made on jira, in order
CallsOf(op) == SelectSeq(calls, LAMBDA c : c.op = op)

\* what a step of the load loop does to a line read in mode 'date_or_time_log'
C1_StepInEitherMode ==
  (AboutToParse /\ mode = "date_or_time_log" /\ line_no' = line_no + 1) =>
    IF parse_date_line(NextLine, now).ok
    THEN /\ current_date' = parse_date_line(NextLine, now).date
         /\ logs' = logs
         /\ calls' = calls
         /\ mode' = "time_log"
         /\ pc' = "load"
    ELSE /\ current_date' = current_date
         /\ pc' = "load" =>
              /\ parse_time_log_fields(NextLine).ok
              /\ logs' = Append(logs, [date |-> current_date,
                                       ticket |-> parse_time_log_fields(NextLine).ticket,
                                       description |-> parse_time_log_fields(NextLine).description,
                                       time |-> parse_time_log_fields(NextLine).time])
              /\ mode' = "date_or_time_log"
         /\ pc' # "load" => logs' = logs /\ pc' = "exit_error"
         /\ ( /\ parse_time_log_fields(NextLine).ok
              /\ parse_only \/ InSeq(parse_time_log_fields(NextLine).ticket, tickets) )
            => pc' = "load"

\* C1: in mode 'date_or_time_log' a line that is not blank is tried as a date
\* heading first: if the date parser accepts it, current_date becomes that
\* date, no entry is added, the validator is not consulted and the mode becomes
\* 'time_log'. Only if the date parser rejects it is the line tried as a time
\* entry: then current_date is unchanged, and either exactly one entry (stamped
\* with current_date, with the line's ticket, time and description) is added
\* and the mode is 'date_or_time_log' again, or the run exits with no entry
\* added; the entry is added whenever the time entry parses and its ticket
\* needs no validation.
C1_DateFirstThenTimeEntry == [][C1_StepInEitherMode]_vars

\* C1 witness: after a heading and two entries (the second one parsed in mode
\* 'date_or_time_log'), a second heading was accepted in that mode.
C1_Witness ==
  /\ Len(headings) = 2
  /\ Len(emitted) = 2
  /\ emitted[2].line_no < headings[2].line_no
  /\ mode = "time_log"

\* the last heading accepted on a line before line n, 0 when there is none
LastHeadingBefore(n) ==
  IF \E h \in 1..Len(headings) : headings[h].line_no < n
  THEN CHOOSE h \in 1..Len(headings) :
         /\ headings[h].line_no < n
         /\ \A k \in 1..Len(headings) :
              headings[k].line_no < n => headings[k].line_no <= headings[h].line_no
  ELSE 0

\* C2: every entry of the collection was added from a line of the file and
\* carries the date of the heading most recently accepted on a line strictly
\* before its own; each heading recorded is the date the date parser gives for
\* its line; and while current_date is unset the collection is empty.
C2_EntriesCarryLatestHeading ==
  /\ SameItems(logs, EmittedLogs)
  /\ \A i \in 1..Len(emitted) :
       /\ LastHeadingBefore(emitted[i].line_no) # 0
       /\ emitted[i].log.date = headings[LastHeadingBefore(emitted[i].line_no)].date
  /\ \A h \in 1..Len(headings) :
       /\ headings[h].line_no \in 1..line_no
       /\ parse_date_line(normalize(lines[headings[h].line_no]), now).ok
       /\ parse_date_line(normalize(lines[headings[h].line_no]), now).date = headings[h].date
  /\ current_date = None => logs = <<>>

\* C2 witness: two entries under two different headings, the second heading
\* accepted between them.
C2_Witness ==
  /\ Len(emitted) = 2
  /\ Len(headings) = 2
  /\ headings[1].date # headings[2].date
  /\ emitted[1].line_no < headings[2].line_no
  /\ headings[2].line_no < emitted[2].line_no

\* the line cannot be parsed in mode m, whatever the validator says
LineFails(m, line) ==
  IF m = "date" THEN ~parse_date_line(line, now).ok
  ELSE IF m = "time_log" THEN ~parse_time_log_fields(line).ok
  ELSE ~parse_date_line(line, now).ok /\ ~parse_time_log_fields(line).ok

\* a line that cannot be parsed makes the run exit on it
C3_FailureExits ==
  (AboutToParse /\ LineFails(mode, NextLine)) =>
    /\ pc' = "exit_error"
    /\ line_no' = line_no + 1
    /\ err'.line_no = line_no + 1
    /\ err'.text = lines[line_no + 1]
    /\ logs' = logs

\* nothing happens after the exit
C3_ExitIsFinal == pc \in {"exit_error", "exit_success"} => UNCHANGED vars

\* a run that exited on a line has uploaded nothing
C3_NothingCommitted ==
  (pc = "exit_error" /\ err.line_no > 0) =>
    /\ line_no = err.line_no
    /\ err.text = lines[line_no]
    /\ CallsOf("add_worklog") = <<>>
    /\ upload_i = 0
    /\ summary = None

\* C3: a line that does not parse in the current mode (no pattern matches, the
\* date is not a calendar date or is in the future) makes the run exit at that
\* line with an error that carries the line's 1-based number and its text;
\* after the exit nothing changes any more (no later line is parsed); and a
\* run that exited on a line has made no add_worklog call at all, whatever
\* entries the lines before had added.
C3_ParseFailureAbortsRun ==
  /\ [][C3_FailureExits /\ C3_ExitIsFinal]_vars
  /\ []C3_NothingCommitted

\* C3 witness: the run exited on line 3 of 4, a heading dated in the future,
\* after an entry had been added from line 2.
C3_Witness ==
  /\ pc = "exit_error"
  /\ Len(lines) = 4
  /\ err.line_no = 3
  /\ lines[3] = LineDateFuture
  /\ Len(emitted) = 1

\* a is not after b in the order (date, project prefix as text, ticket number as
\* an integer)
KeyOrdered(a, b) ==
  \/ DateAfter(b.date, a.date)
  \/ /\ a.date = b.date
     /\ \/ StrLess(TicketPrefix(a.ticket), TicketPrefix(b.ticket))
        \/ /\ TicketPrefix(a.ticket) = TicketPrefix(b.ticket)
           /\ TicketNumber(a.ticket) <= TicketNumber(b.ticket)

\* C4: the add_worklog calls are made on the entries of the sorted collection
\* in its order, one call per position: the i-th call is on the i-th entry.
\* Every call but the last one made has recorded its entry, and upload_i counts
\* the recorded ones. A call that failed is the last call of the run: the run
\* has exited with an error, with exactly the entries before it recorded. A run
\* that uploads and exits with success has made one call per entry, all
\* recorded.
C4_UploadIsAnOrderedPrefix ==
  /\ Len(CallsOf("add_worklog")) <= Len(logs)
  /\ \A i \in 1..Len(CallsOf("add_worklog")) :
       /\ CallsOf("add_worklog")[i].arg = logs[i]
       /\ i < Len(CallsOf("add_worklog")) => CallsOf("add_worklog")[i].result = "recorded"
       /\ \A j \in 1..(i - 1) :
            KeyOrdered(CallsOf("add_worklog")[j].arg, CallsOf("add_worklog")[i].arg)
       /\ CallsOf("add_worklog")[i].result = "sink_error" =>
            /\ i = Len(CallsOf("add_worklog"))
            /\ pc = "exit_error"
            /\ upload_i = i - 1
  /\ pc = "upload" => upload_i = Len(CallsOf("add_worklog"))
  /\ (pc = "exit_success" /\ CallsOf("add_worklog") # <<>>) =>
       /\ Len(CallsOf("add_worklog")) = Len(logs)
       /\ upload_i = Len(logs)
       /\ \A i \in 1..Len(logs) : CallsOf("add_worklog")[i].result = "recorded"

\* C4 witness: of three entries the first was recorded, the second failed and
\* the third was never sent.
C4_Witness ==
  /\ Len(logs) = 3
  /\ Len(CallsOf("add_worklog")) = 2
  /\ CallsOf("add_worklog")[1].result = "recorded"
  /\ CallsOf("add_worklog")[2].result = "sink_error"
  /\ pc = "exit_error"

\* the file was parsed to its end
ParsedWhole == pc # "load" /\ err.line_no = 0

\* C5: once the whole file is parsed, the collection holds exactly the entries
\* added, and each entry is not after the next one in the order (date, project
\* prefix as text, ticket number as an integer).
C5_CollectionIsSorted ==
  ParsedWhole =>
    /\ SameItems(logs, EmittedLogs)
    /\ \A i \in 1..(Len(logs) - 1) : KeyOrdered(logs[i], logs[i + 1])

\* C5 witness: PROJ-10 was added before PROJ-2 under the same heading, and the
\* collection has PROJ-2 first.
C5_Witness ==
  /\ pc = "prompt"
  /\ Len(emitted) = 2
  /\ emitted[1].log.ticket = <<"P", "R", "O", "J", "-", "1", "0">>
  /\ emitted[2].log.ticket = <<"P", "R", "O", "J", "-", "2">>
  /\ emitted[1].log.date = emitted[2].log.date
  /\ logs = <<emitted[2].log, emitted[1].log>>

\* C6: no two jira.issue() calls of a run are on the same ticket, every call
\* is on an uppercase ticket identifier, and in parse-only mode no call is made
\* on jira at all (no issue, no add_worklog).
C6_ValidatorOncePerTicket ==
  /\ \A i, j \in 1..Len(CallsOf("issue")) :
       i # j => CallsOf("issue")[i].arg # CallsOf("issue")[j].arg
  /\ \A i \in 1..Len(CallsOf("issue")) :
       /\ CallsOf("issue")[i].arg = upper(CallsOf("issue")[i].arg)
       /\ TicketMatch(CallsOf("issue")[i].arg)
  /\ parse_only => calls = <<>>

\* C6 witness: two entries with the same ticket were added (the second one in
\* mode 'date_or_time_log') with validation on, after one jira.issue() call.
C6_Witness ==
  /\ ~parse_only
  /\ Len(emitted) = 2
  /\ emitted[1].log.ticket = emitted[2].log.ticket
  /\ Len(CallsOf("issue")) = 1

\* C7: with validation on, no jira.issue() call comes after an add_worklog
\* call, and once a jira.issue() call has raised (ticket absent or lookup
\* failed) the run has exited with an error and makes no add_worklog call.
C7_ValidationBeforeUpload ==
  ~parse_only =>
    /\ \A i, j \in 1..Len(calls) :
         (calls[i].op = "add_worklog" /\ calls[j].op = "issue") => j < i
    /\ (\E i \in 1..Len(calls) : calls[i].op = "issue" /\ calls[i].result # "found") =>
         /\ pc = "exit_error"
         /\ CallsOf("add_worklog") = <<>>

\* C7 witness: one entry was added, then the ticket of a later entry was
\* reported absent and the run exited.
C7_Witness ==
  /\ ~parse_only
  /\ Len(emitted) = 1
  /\ Len(CallsOf("issue")) = 2
  /\ CallsOf("issue")[2].result = "absent"
  /\ pc = "exit_error"

\* line k is the first line of the file that is not blank
FirstNonBlank(k) ==
  /\ k \in 1..Len(lines)
  /\ ~IsBlank(lines[k])
  /\ \A n \in 1..(k - 1) : IsBlank(lines[n])

\* C8: as long as only blank lines were read the mode is 'date' and no date is
\* pending; and when the first line that is not blank is a time entry, the run
\* has exited on it with 'Pattern not matched' (the date parser's mismatch),
\* the error carries that line's number and text, no entry was added and the
\* validator was not consulted.
C8_TimeEntryFirstAborts ==
  /\ (\A n \in 1..line_no : IsBlank(lines[n])) =>
       mode = "date" /\ current_date = None /\ logs = <<>>
  /\ \A k \in 1..line_no :
       (FirstNonBlank(k) /\ parse_time_log_fields(normalize(lines[k])).ok) =>
         /\ pc = "exit_error"
         /\ err = [line_no |-> k, text |-> lines[k], wraps |-> 1,
                   msg |-> "Pattern not matched"]
         /\ line_no = k
         /\ emitted = <<>>
         /\ logs = <<>>
         /\ calls = <<>>

\* C8 witness: the run exited on line 2, a time entry after a blank line.
C8_Witness ==
  /\ pc = "exit_error"
  /\ err.line_no = 2
  /\ IsBlank(lines[1])
  /\ parse_time_log_fields(normalize(lines[2])).ok

IsHyphenatedDate(s) ==
  /\ Len(s) = 10
  /\ s[5] = "-" /\ s[8] = "-"
  /\ \A i \in {1, 2, 3, 4, 6, 7, 9, 10} : IsDigit(s[i])

\* YYYYMMDD
IsCompactDate(s) == Len(s) = 8 /\ AllDigits(s)

\* C10: a line is committed as current_date only if it has the shape
\* YYYY-MM-DD or YYYYMMDD after normalization, and a line of any other shape
\* read in mode 'date' makes the run exit with 'Pattern not matched'.
C10_OnlyTwoDateShapes ==
  /\ \A h \in 1..Len(headings) :
       \/ IsHyphenatedDate(normalize(lines[headings[h].line_no]))
       \/ IsCompactDate(normalize(lines[headings[h].line_no]))
  /\ ( /\ pc = "exit_error"
       /\ err.line_no > 0
       /\ mode = "date"
       /\ ~IsHyphenatedDate(normalize(err.text))
       /\ ~IsCompactDate(normalize(err.text)) )
     => err.msg = "Pattern not matched"

\* the calendar date a line names, None when it names none
DateNamed(date_match) ==
  IF date_match.matched
     /\ ValidCalendarDate(date_match.year, date_match.month, date_match.day)
  THEN <<date_match.year, date_match.month, date_match.day>>
  ELSE None

\* the line is a date heading for a day after the day of now
IsFutureHeading(line) ==
  /\ DateNamed(DateMatch(normalize(line))) # None
  /\ DateAfter(DateNamed(DateMatch(normalize(line))), now)

C11_NoDateAfterNow ==
  /\ current_date # None => ~DateAfter(current_date, now)
  /\ \A i \in 1..Len(logs) : ~DateAfter(logs[i].date, now)
  /\ \A h \in 1..Len(headings) : ~DateAfter(headings[h].date, now)
  /\ \A n \in 1..line_no :
       IsFutureHeading(lines[n]) =>
         /\ pc = "exit_error"
         /\ err.line_no = n
         /\ mode = "date" => err.msg = "Date is in the future"
         /\ \A h \in 1..Len(headings) : headings[h].line_no # n
         /\ \A e \in 1..Len(emitted) : emitted[e].line_no # n

\* C11: a date heading for a day after now is rejected at whatever line of the
\* run it stands (with 'Date is in the future' when only a date was tried) and
\* the run exits there, so it never becomes current_date and no entry has a
\* date after now; now does not change during the run.
C11_FutureDateRejected == [](C11_NoDateAfterNow) /\ [][now' = now]_vars

\* the run exited on a heading for the day after now
C11_Witness ==
  /\ pc = "exit_error"
  /\ err.line_no = 3
  /\ IsFutureHeading(lines[3])
  /\ Len(headings) = 1
  /\ Len(logs) = 1

\* the segments of a line of the file, as parse_time_log_line cuts them
TicketSegment(line) == strip(split2(normalize(line), ",")[1])

TimeSegment(line) ==
  IF Len(split2(normalize(line), ",")) > 1
  THEN strip(split2(normalize(line), ",")[2])
  ELSE <<>>

\* <digits> H or <digits> M at position from of s: its length, 0 when absent
UnitPartLen(s, from, units) ==
  IF /\ DigitRun(s, from) >= 1
     /\ from + DigitRun(s, from) + SpaceRun(s, from + DigitRun(s, from)) <= Len(s)
     /\ s[from + DigitRun(s, from) + SpaceRun(s, from + DigitRun(s, from))] \in units
  THEN DigitRun(s, from) + SpaceRun(s, from + DigitRun(s, from)) + 1
  ELSE 0

\* the whole of s is a number (digits, digits.digits or .digits) with an
\* optional H after it
IsDecimalForm(s) ==
  \E k \in 1..Len(s) :
    /\ \/ AllDigits(SubSeq(s, 1, k))
       \/ \E p \in 1..(k - 1) :
            /\ s[p] = "."
            /\ AllDigits(SubSeq(s, 1, p - 1))
            /\ AllDigits(SubSeq(s, p + 1, k))
    /\ \/ SpaceRun(s, k + 1) = Len(s) - k
       \/ /\ SpaceRun(s, k + 1) = Len(s) - k - 1
          /\ s[Len(s)] \in {"H", "h"}

\* the whole of s is an optional <digits>H followed by an optional <digits>M
IsHoursMinsForm(s) ==
  \E h \in {0, UnitPartLen(s, 1, {"H", "h"})} :
    \E m \in {0, UnitPartLen(s, h + SpaceRun(s, h + 1) + 1, {"M", "m"})} :
      h + SpaceRun(s, h + 1) + m = Len(s)

\* a segment worth no time: empty, or a number or hours and minutes made of
\* zeros only
IsZeroSegment(s) ==
  \/ s = <<>>
  \/ /\ IsDecimalForm(s) \/ IsHoursMinsForm(s)
     /\ \A i \in 1..Len(s) : IsDigit(s[i]) => s[i] = "0"

\* the lines handed to the time entry parser so far: the lines after the first
\* heading that are not blank and that the date parser does not accept
TimeEntryLines ==
  {n \in 1..line_no :
     /\ Len(headings) > 0 /\ n > headings[1].line_no
     /\ ~IsBlank(lines[n])
     /\ ~parse_date_line(normalize(lines[n]), now).ok}

EmittedAt(n) == \E e \in 1..Len(emitted) : emitted[e].line_no = n

\* C12: every entry is worth more than zero minutes, and a line whose time
\* segment is worth nothing ('0', '0h0m', '0h', '0m', empty or missing) makes
\* the run exit with no entry for it, with 'Time pattern not matched' when its
\* ticket segment matched.
C12_DurationIsPositive ==
  /\ \A i \in 1..Len(logs) : 60 * logs[i].time.hours + logs[i].time.minutes > 0
  /\ \A n \in TimeEntryLines :
       IsZeroSegment(TimeSegment(lines[n])) =>
         /\ ~EmittedAt(n)
         /\ pc = "exit_error" /\ err.line_no = n
         /\ TicketMatch(TicketSegment(lines[n])) => err.msg = "Time pattern not matched"

\* the run exited on an entry of zero hours and zero minutes
C12_Witness ==
  /\ pc = "exit_error"
  /\ err.line_no = 2
  /\ TimeSegment(lines[2]) = <<"0", "h", "0", "m">>
  /\ err.msg = "Time pattern not matched"
  /\ logs = <<>>

\* C13: an entry is emitted only for a line whose whole time segment is in
\* decimal-hours form or in hours-and-minutes form; a segment with anything
\* else after or around such a form ('1h30', '1h x', '30m1h') makes the run
\* exit with 'Time pattern not matched' and no entry.
C13_WholeSegmentOnly ==
  \A n \in TimeEntryLines :
    ~(IsDecimalForm(TimeSegment(lines[n])) \/ IsHoursMinsForm(TimeSegment(lines[n]))) =>
      /\ ~EmittedAt(n)
      /\ pc = "exit_error" /\ err.line_no = n
      /\ TicketMatch(TicketSegment(lines[n])) => err.msg = "Time pattern not matched"

\* the digits before and after the point of a segment in decimal-hours form
WholeDigits(s) == SubSeq(s, 1, DigitRun(s, 1))

FractionDigits(s) ==
  IF DigitRun(s, 1) < Len(s) /\ s[DigitRun(s, 1) + 1] = "."
  THEN SubSeq(s, DigitRun(s, 1) + 2, DigitRun(s, 1) + 1 + DigitRun(s, DigitRun(s, 1) + 2))
  ELSE <<>>

\* floor(v) hours and floor(60 * fractional part of v) minutes of the decimal
\* number v that s writes, in exact arithmetic
TruncatedDuration(s) ==
  [hours   |-> int(WholeDigits(s)),
   minutes |-> (60 * int(FractionDigits(s))) \div Pow10(Len(FractionDigits(s)))]

\* C14: the entry of a line whose time segment is in decimal-hours form, of
\* value v, has floor(v) hours and floor(60 * fractional part of v) minutes,
\* and minutes in 0..59.
C14_DecimalHoursTruncated ==
  \A e \in 1..Len(emitted) :
    IsDecimalForm(TimeSegment(lines[emitted[e].line_no])) =>
      /\ emitted[e].log.time = TruncatedDuration(TimeSegment(lines[emitted[e].line_no]))
      /\ emitted[e].log.time.minutes \in 0..59

\* t matches ^[A-Z][A-Z0-9]+-[0-9]+$ as written: capital letters A to Z and
\* digits 0 to 9 only
IsUpperTicket(t) ==
  \E k \in 3..(Len(t) - 1) :
    /\ t[1] \in Upper
    /\ \A i \in 2..(k - 1) : t[i] \in Upper \cup Digit
    /\ t[k] = "-"
    /\ \A i \in (k + 1)..Len(t) : t[i] \in Digit

\* C15: the ticket of every entry is its line's ticket segment in capitals and
\* matches ^[A-Z][A-Z0-9]+-[0-9]+$, and a line whose ticket segment does not
\* match that pattern in either case makes the run exit with 'Ticket pattern
\* not matched', no entry and no call of the validator for it.
C15_TicketIsUpperAndMatches ==
  /\ \A i \in 1..Len(logs) : IsUpperTicket(logs[i].ticket)
  /\ \A e \in 1..Len(emitted) :
       emitted[e].log.ticket = upper(TicketSegment(lines[emitted[e].line_no]))
  /\ \A n \in TimeEntryLines :
       ~IsUpperTicket(upper(TicketSegment(lines[n]))) =>
         /\ ~EmittedAt(n)
         /\ pc = "exit_error" /\ err.line_no = n
         /\ err.msg = "Ticket pattern not matched"
         /\ \A c \in 1..Len(calls) : calls[c].arg # upper(TicketSegment(lines[n]))

\* the minutes of a list of entries, 60 * hours + minutes each
RECURSIVE DurationSum(_)
DurationSum(ls) ==
  IF ls = <<>> THEN 0
  ELSE 60 * Head(ls).time.hours + Head(ls).time.minutes + DurationSum(Tail(ls))

\* the entries of one date, in the order of the collection
EntriesOn(date) == SelectSeq(logs, LAMBDA l : l.date = date)

C16_GroupIsRight(group) ==
  /\ group.logs # <<>>
  /\ group.logs = EntriesOn(group.date)
  /\ group.total_time_minutes = DurationSum(group.logs)
  /\ group.hours = group.total_time_minutes \div 60
  /\ group.minutes = group.total_time_minutes % 60

\* C16: the summary has one group for each date of the collection, each entry
\* is in the group of its date and in no other, the entries of a group are in
\* the order of the sorted collection, the total of a group is the sum of 60 *
\* hours + minutes of its entries, the grand total is the sum of the totals of
\* the groups, the day count is the number of distinct dates, the log count is
\* the number of entries, and hours and minutes of a total are the total div 60
\* and mod 60.
C16_SummaryGroupsAndTotals ==
  summary # None =>
    /\ \A i \in 1..Len(logs) :
         Cardinality({k \in 1..Len(summary.groups) :
                        summary.groups[k].date = logs[i].date}) = 1
    /\ \A k \in 1..Len(summary.groups) : C16_GroupIsRight(summary.groups[k])
    /\ summary.total_minutes = DurationSum(logs)
    /\ summary.days = Cardinality({logs[i].date : i \in 1..Len(logs)})
    /\ summary.days = Len(summary.groups)
    /\ summary.n_logs = Len(logs)
    /\ summary.hours = summary.total_minutes \div 60
    /\ summary.minutes = summary.total_minutes % 60

\* a summary of two entries on two dates, read in the file with the later
\* date first: 1h 30m and 45m, 2h 15m in all
C16_Witness ==
  /\ summary # None
  /\ Len(headings) = 2 /\ DateAfter(headings[1].date, headings[2].date)
  /\ summary.days = 2
  /\ summary.n_logs = 2
  /\ summary.groups[1].date = headings[2].date
  /\ summary.groups[2].hours = 1 /\ summary.groups[2].minutes = 30
  /\ summary.hours = 2 /\ summary.minutes = 15

\* what a step of the load loop does when the next line is blank
C17_StepOnBlankLine ==
  (pc = "load" /\ line_no < Len(lines) /\ IsBlank(lines[line_no + 1])) =>
    /\ line_no' = line_no + 1
    /\ UNCHANGED <<mode, current_date, logs, tickets, calls, headings, emitted, pc, err>>

\* a failure on a line is reported with the position of the line in the file,
\* blank lines counted
C17_LineNumbersCountBlankLines ==
  (pc = "exit_error" /\ err.line_no > 0) =>
    /\ err.line_no = line_no
    /\ err.text = lines[line_no]
    /\ ~IsBlank(err.text)

\* C17: a blank line, in any mode, is passed over: no parser is tried on it
\* (no heading, no entry, no failure), the mode, current_date, the collection
\* and the calls of the validator stay as they are, and the count of lines goes
\* up by one, so that a failure further down is reported with its line number
\* in the file.
C17_BlankLineIsSkipped ==
  [][C17_StepOnBlankLine]_vars /\ [](C17_LineNumbersCountBlankLines)

\* a blank line after an entry was passed over and the line after it failed
C17_Witness ==
  /\ pc = "exit_error"
  /\ err.line_no = 4
  /\ IsBlank(lines[3])
  /\ Len(emitted) = 1 /\ emitted[1].line_no = 2
  /\ err.wraps = 2

\* the message of the failure of a line as a time entry: that of the parser,
\* or that of the validator when the fields of the line parse
TimeEntryFailure(fields) == IF fields.ok THEN "Failed to get ticket info" ELSE fields.msg

\* what a step of the load loop does in mode 'date_or_time_log' to a line that
\* is no date heading, when the run does not go on
C18_StepWhenBothFail ==
  ( /\ AboutToParse /\ mode = "date_or_time_log" /\ line_no' = line_no + 1
    /\ ~parse_date_line(NextLine, now).ok )
  => /\ ~parse_time_log_fields(NextLine).ok => pc' = "exit_error"
     /\ pc' = "exit_error" =>
          /\ current_date' = current_date
          /\ logs' = logs
          /\ headings' = headings /\ emitted' = emitted
          /\ err'.line_no = line_no + 1
          /\ err'.text = lines[line_no + 1]
          /\ err'.msg = TimeEntryFailure(parse_time_log_fields(NextLine))

\* C18: in mode 'date_or_time_log', when a line fails as a date heading (no
\* date, or a date after now) and then fails as a time entry, the run exits,
\* current_date and the collection are as before the line, and the failure
\* reported is that of the time entry attempt, with the text of the line and
\* its line number.
C18_SecondFailureReported == [][C18_StepWhenBothFail]_vars

\* the run exited on a heading for a day after now that stood after an entry:
\* the failure reported is that of the ticket pattern
C18_Witness ==
  /\ pc = "exit_error"
  /\ err.wraps = 2
  /\ IsFutureHeading(err.text)
  /\ err.msg = "Ticket pattern not matched"
  /\ Len(logs) = 2
  /\ current_date = headings[1].date

\* what a step of the load loop does to a line read in mode 'time_log'
C19_StepInTimeLogMode ==
  (AboutToParse /\ mode = "time_log" /\ line_no' = line_no + 1) =>
    /\ current_date' = current_date
    /\ headings' = headings
    /\ parse_date_line(NextLine, now).ok => pc' = "exit_error"
    /\ pc' = "load" =>
         /\ parse_time_log_fields(NextLine).ok
         /\ Len(emitted') = Len(emitted) + 1
         /\ emitted'[Len(emitted')].line_no = line_no + 1
    /\ pc' # "load" =>
         /\ pc' = "exit_error"
         /\ err'.wraps = 1
         /\ err'.msg = TimeEntryFailure(parse_time_log_fields(NextLine))

\* between two headings accepted one after the other there is an entry
C19_EntryBetweenHeadings ==
  \A h \in 1..(Len(headings) - 1) :
    \E e \in 1..Len(emitted) :
      /\ headings[h].line_no < emitted[e].line_no
      /\ emitted[e].line_no < headings[h + 1].line_no

\* C19: in mode 'time_log', the mode after an accepted heading, the next line
\* that is not blank is tried as a time entry only: no heading is accepted
\* there, a line that is a date heading makes the run exit with the failure of
\* the time entry parser, and so between two headings accepted one after the
\* other at least one entry was emitted.
C19_TimeEntryAfterHeading == [][C19_StepInTimeLogMode]_vars /\ [](C19_EntryBetweenHeadings)

\* the run exited on a date heading that stood directly after a date heading
C19_Witness ==
  /\ pc = "exit_error"
  /\ Len(headings) = 1
  /\ err.line_no = headings[1].line_no + 1
  /\ parse_date_line(normalize(err.text), now).ok
  /\ err.wraps = 1
  /\ err.msg = "Ticket pattern not matched"

\* parse_line in mode 'date_or_time_log' with the two attempts the other way
\* round: the line as a time entry first, and if that fails the line as a date
date_after_time_log(as_time, line) ==
  IF as_time.raised = "" THEN as_time
  ELSE parse_line_date([as_time.self EXCEPT !.mode = "date"], line)

time_log_first(self, line, vres) ==
  date_after_time_log(parse_line_time_log([self EXCEPT !.mode = "time_log"], line, vres),
                      line)

\* the two orders accept the same lines and leave the same state behind; they
\* may differ in the failure reported and in the mode left when both fail
SameOutcome(a, b) ==
  /\ (a.raised = "") = (b.raised = "")
  /\ a.raised = "" => a.self = b.self
  /\ a.self.current_date = b.self.current_date
  /\ a.self.logs = b.self.logs
  /\ a.self.tickets = b.self.tickets
  /\ a.self.calls = b.self.calls

\* C20: no line is accepted by the date parser and by the time entry parser
\* both, and for a line read in mode 'date_or_time_log' trying the date first
\* gives the same heading or entry, the same mode and the same calls as trying
\* the time entry first: the order only shows in the failure reported.
C20_ParsersAreExclusive ==
  /\ AboutToParse =>
       ~(parse_date_line(NextLine, now).ok /\ parse_time_log_fields(NextLine).ok)
  /\ (AboutToParse /\ mode = "date_or_time_log") =>
       \A vres \in ValidatorResults :
         SameOutcome(parse_line(Self, lines[line_no + 1], vres),
                     time_log_first(Self, lines[line_no + 1], vres))

\* a heading was accepted in mode 'date_or_time_log', after an entry
C20_Witness ==
  /\ pc = "load"
  /\ line_no = 3
  /\ Len(emitted) = 1
  /\ Len(headings) = 2 /\ headings[2].line_no = 3
  /\ mode = "time_log"

====
